---- MODULE Spec2Model ----
(***************************************************************************)
(* Bounding-box data model of utils_cv/detection/bbox.py (Spec), the      *)
(* score threshold of detection/model.py (FilterSpec), the train/test     *)
(* split and transforms of detection/dataset.py (SplitSpec), its reading  *)
(* of annotations (AnnoSpec) and the training and evaluation calls of     *)
(* tracking/model.py (TrackSpec).                                          *)
(*                                                                         *)
(* The state is one caller variable `box` bound to a box object, and the   *)
(* record `ret` of the last call made: the operation, its arguments, the   *)
(* receiver's coordinates before the call, and what the call returned.     *)
(*                                                                         *)
(* Numbers handed to a constructor may be any Python number; they are      *)
(* represented in quarter units (the model integer q stands for q/4), so   *)
(* that int(round(float(x))) is a real conversion.  Coordinates stored in  *)
(* a box are Python ints and are represented as themselves.                *)
(***************************************************************************)
EXTENDS Integers, Sequences, FiniteSets, TLC

VARIABLES box, ret, flt, ds, trk

\* box, ret: the bounding-box model.  flt: the last call of
\* get_bounding_boxes.  ds: the DetectionDataset.  trk: the tracking
\* learner's calls and the file system they act on.
vars == <<box, ret, flt, ds, trk>>

bboxVars == <<box, ret>>

\* What the bounding-box operations leave alone.
notBbox == <<flt, ds, trk>>

\* ------------------------------------------------------------------ bounds

\* Integer coordinates -CoordBound..CoordBound are tried in every position.
CoordBound == 1

\* crop bounds -1..CropBound are tried (besides the fixture's bounds).
CropBound == 1

\* label_idx values 0..MaxLabel are tried for the annotated box types.
MaxLabel == 1

\* ------------------------------------------------------- program constants

MAX_VALID_DIM == 100000

\* ------------------------------------------------------------ Python values

Min(a, b) == IF a <= b THEN a ELSE b

Max(a, b) == IF a >= b THEN a ELSE b

\* Python's None, and an attribute that an object does not have.
NoneVal == [cls |-> "NoneType"]

\* A raised exception.
Raised(name) == [cls |-> name]

\* A returned int, bool or list of ints.
Value(v) == [cls |-> "value", v |-> v]

IsValue(r) == r.cls = "value"

IsBox(v) == v.cls \in {"_Bbox", "AnnotationBbox", "DetectionBbox"}

\* The model integer of the Python int n (quarter units).
Q(n) == 4 * n

QSeq(s) == [i \in DOMAIN s |-> Q(s[i])]

IsInt(q) == q % 4 = 0

AllInt(s) == \A i \in DOMAIN s : IsInt(s[i])

\* int(round(float(x))): Python 3 rounds to the nearest integer, ties to
\* the even one.
PyRound(q) ==
    LET f == q \div 4
        r == q % 4
    IN  IF r < 2 THEN f
        ELSE IF r > 2 THEN f + 1
        ELSE IF f % 2 = 0 THEN f ELSE f + 1

\* -------------------------------------------------------------- class _Bbox

StandardizeNoSwap(b) == b

standardize(b) ==
    LET left_new == Min(b.left, b.right)
        top_new == Min(b.top, b.bottom)
        right_new == Max(b.left, b.right)
        bottom_new == Max(b.top, b.bottom)
    IN  [b EXCEPT !.left = left_new, !.top = top_new,
                  !.right = right_new, !.bottom = bottom_new]

\* _Bbox.__init__: the arguments are numbers in quarter units.
BboxInit(left, top, right, bottom) ==
    standardize([cls |-> "_Bbox",
                 left |-> PyRound(left), top |-> PyRound(top),
                 right |-> PyRound(right), bottom |-> PyRound(bottom)])

FromArraySwapped(arr) ==
    IF Len(arr) < 4 THEN Raised("IndexError")
    ELSE BboxInit(arr[1], arr[2], arr[4], arr[3])

FromArrayStrict(arr) ==
    IF Len(arr) # 4 THEN Raised("ValueError")
    ELSE BboxInit(arr[1], arr[2], arr[3], arr[4])

\* _Bbox.from_array: arr[3] fails on an array shorter than 4.
from_array(arr) ==
    IF Len(arr) < 4 THEN Raised("IndexError")
    ELSE BboxInit(arr[1], arr[2], arr[3], arr[4])

FromArrayXywhAsLtrb(arr) ==
    IF Len(arr) < 4 THEN Raised("IndexError")
    ELSE BboxInit(arr[1], arr[2], arr[3], arr[4])

from_array_xywh(arr) ==
    IF Len(arr) < 4 THEN Raised("IndexError")
    ELSE BboxInit(arr[1], arr[2], arr[1] + arr[3], arr[2] + arr[4])

coords(b) == <<b.left, b.top, b.right, b.bottom>>

rect(b) == Value(coords(b))

WidthExclusive(b) ==
    LET w == b.right - b.left
    IN  IF w >= 0 THEN Value(w) ELSE Raised("AssertionError")

\* An int, or the AssertionError of `assert width >= 0`.
width(b) ==
    LET w == b.right - b.left + 1
    IN  IF w >= 0 THEN Value(w) ELSE Raised("AssertionError")

height(b) ==
    LET h == b.bottom - b.top + 1
    IN  IF h >= 0 THEN Value(h) ELSE Raised("AssertionError")

surface_area(b) ==
    IF ~IsValue(width(b)) THEN width(b)
    ELSE IF ~IsValue(height(b)) THEN height(b)
    ELSE Value(width(b).v * height(b).v)

OverlapStrict(a, b) ==
    LET overlap_left == Max(a.left, b.left)
        overlap_top == Max(a.top, b.top)
        overlap_right == Min(a.right, b.right)
        overlap_bottom == Min(a.bottom, b.bottom)
    IN  IF overlap_left >= overlap_right \/ overlap_top >= overlap_bottom
        THEN NoneVal
        ELSE BboxInit(Q(overlap_left), Q(overlap_top),
                      Q(overlap_right), Q(overlap_bottom))

get_overlap_bbox(a, b) ==
    LET overlap_left == Max(a.left, b.left)
        overlap_top == Max(a.top, b.top)
        overlap_right == Min(a.right, b.right)
        overlap_bottom == Min(a.bottom, b.bottom)
    IN  IF overlap_left > overlap_right \/ overlap_top > overlap_bottom
        THEN NoneVal
        ELSE BboxInit(Q(overlap_left), Q(overlap_top),
                      Q(overlap_right), Q(overlap_bottom))

\* The receiver after crop (crop then returns the receiver itself).
CropNoHeightClamp(b, max_width, max_height) ==
    standardize([b EXCEPT !.left = Min(Max(b.left, 0), max_width),
                          !.top = Max(b.top, 0),
                          !.right = Min(Max(b.right, 0), max_width),
                          !.bottom = Max(b.bottom, 0)])

CropRejectsNegative(b, max_width, max_height) ==
    IF max_width < 0 \/ max_height < 0 THEN Raised("Exception")
    ELSE standardize([b EXCEPT !.left = Min(Max(b.left, 0), max_width),
                               !.top = Min(Max(b.top, 0), max_height),
                               !.right = Min(Max(b.right, 0), max_width),
                               !.bottom = Min(Max(b.bottom, 0), max_height)])

crop(b, max_width, max_height) ==
    standardize([b EXCEPT !.left = Min(Max(b.left, 0), max_width),
                          !.top = Min(Max(b.top, 0), max_height),
                          !.right = Min(Max(b.right, 0), max_width),
                          !.bottom = Min(Max(b.bottom, 0), max_height)])

SeqMin(s) == CHOOSE x \in {s[i] : i \in DOMAIN s} :
                 \A y \in {s[i] : i \in DOMAIN s} : x <= y

SeqMax(s) == CHOOSE x \in {s[i] : i \in DOMAIN s} :
                 \A y \in {s[i] : i \in DOMAIN s} : x >= y

IsValidInclusiveEdges(b) ==
    IF b.left > b.right \/ b.top > b.bottom THEN Value(FALSE)
    ELSE IF SeqMin(coords(b)) < -MAX_VALID_DIM
            \/ SeqMax(coords(b)) > MAX_VALID_DIM
    THEN Value(FALSE)
    ELSE Value(TRUE)

is_valid(b) ==
    IF b.left >= b.right \/ b.top >= b.bottom THEN Value(FALSE)
    ELSE IF SeqMin(coords(b)) < -MAX_VALID_DIM
            \/ SeqMax(coords(b)) > MAX_VALID_DIM
    THEN Value(FALSE)
    ELSE Value(TRUE)

\* ----------------------------------------- AnnotationBbox and DetectionBbox

\* Attribute assignment: the attributes set, over those the object had.
set_meta(b, label_idx, im_path, label_name) ==
    [label_idx |-> label_idx, im_path |-> im_path, label_name |-> label_name]
    @@ b

AnnotationBboxInit(left, top, right, bottom, label_idx, im_path, label_name) ==
    set_meta([BboxInit(left, top, right, bottom) EXCEPT !.cls = "AnnotationBbox"],
             label_idx, im_path, label_name)

DetectionBboxInit(left, top, right, bottom, label_idx, score, im_path, label_name) ==
    [score |-> score]
    @@ [AnnotationBboxInit(left, top, right, bottom,
                           label_idx, im_path, label_name)
            EXCEPT !.cls = "DetectionBbox"]

\* A Python str.
Str(s) == [cls |-> "str", s |-> s]

MetaKeys == {"label_idx", "im_path", "label_name"}

\* bbox.set_meta(**kwargs): the keywords are bound to set_meta's three
\* parameters, none of which has a default.
set_meta_kwargs(b, kwargs) ==
    IF DOMAIN kwargs # MetaKeys THEN Raised("TypeError")
    ELSE set_meta(b, kwargs.label_idx, kwargs.im_path, kwargs.label_name)

\* AnnotationBbox.from_array(arr, **kwargs).
AnnotationBbox_from_array(arr, kwargs) ==
    LET bbox == from_array(arr)
    IN  IF ~IsBox(bbox) THEN bbox
        ELSE set_meta_kwargs([bbox EXCEPT !.cls = "AnnotationBbox"], kwargs)

DetectionFromArrayNoRetag(arr, kwargs) ==
    IF "score" \notin DOMAIN kwargs THEN Raised("TypeError")
    ELSE LET rest == [k \in DOMAIN kwargs \ {"score"} |-> kwargs[k]]
             bbox == AnnotationBbox_from_array(arr, rest)
         IN  IF ~IsBox(bbox) THEN bbox
             ELSE [score |-> kwargs.score] @@ bbox

\* DetectionBbox.from_array(arr, score, **kwargs): `kwargs` here holds the
\* call's keywords, score among them when it is given.
DetectionBbox_from_array(arr, kwargs) ==
    IF "score" \notin DOMAIN kwargs THEN Raised("TypeError")
    ELSE LET rest == [k \in DOMAIN kwargs \ {"score"} |-> kwargs[k]]
             bbox == AnnotationBbox_from_array(arr, rest)
         IN  IF ~IsBox(bbox) THEN bbox
             ELSE [score |-> kwargs.score]
                  @@ [bbox EXCEPT !.cls = "DetectionBbox"]

\* ------------------------------------------------------------------ inputs

Coords == -CoordBound .. CoordBound

\* Arrays of Python ints, every order of small coordinates.
CubeArrays == {QSeq(<<l, t, r, b>>) : l \in Coords, t \in Coords,
                                      r \in Coords, b \in Coords}

\* The arrays of tests/unit/detection/test_detection_bbox.py.
FixtureArrays ==
    {QSeq(<<0, 10, 100, 1000>>), QSeq(<<100, 1000, 0, 10>>),
     QSeq(<<200, 10, 300, 1000>>), QSeq(<<0, 500, 100, 2000>>),
     QSeq(<<0, 0, 0, 0>>), QSeq(<<0, 10, 100, 990>>)}

\* Coordinates at and just beyond MAX_VALID_DIM.
RangeArrays ==
    {QSeq(<<-MAX_VALID_DIM, 0, MAX_VALID_DIM, 1>>),
     QSeq(<<-MAX_VALID_DIM - 1, 0, 5, 5>>),
     QSeq(<<0, 0, 5, MAX_VALID_DIM + 1>>)}

\* Numbers that are no integers: (0.5, 1.5, 2.5, 3.5), (0.25, 0.75, -0.5, -1.5).
FloatArrays == {<<2, 6, 10, 14>>, <<1, 3, -2, -6>>}

\* Arrays of the wrong length.
OddArrays == {QSeq(<<0, 10, 100>>), QSeq(<<0, 10, 100, 1000, 7>>)}

Arrays4 == CubeArrays \cup FixtureArrays \cup RangeArrays \cup FloatArrays

Arrays == Arrays4 \cup OddArrays

CropDims == (-1 .. CropBound) \cup {10}

LabelIdxs == 0 .. MaxLabel

\* Scores in hundredths: 0 and 0.5, as in the tests.
Scores == {0, 50}

\* The arrays the annotated box types are built from.
MetaArrays ==
    {QSeq(<<0, 10, 100, 1000>>), QSeq(<<100, 1000, 0, 10>>)} \cup OddArrays

ImPaths == {Str("im.jpg")}

LabelNames == {Str("cat")}

\* The keywords of a call, each given or left out: label_idx, im_path,
\* label_name and (for DetectionBbox.from_array) score.
KwargsOver(keys) ==
    {[k \in given |->
        IF k = "label_idx" THEN li
        ELSE IF k = "im_path" THEN ip
        ELSE IF k = "label_name" THEN ln
        ELSE sc] :
     given \in SUBSET keys, li \in {0, MaxLabel}, ip \in ImPaths,
     ln \in LabelNames, sc \in Scores}

\* The boxes handed to get_overlap_bbox as its argument: the fixtures as
\* each box type, and every box over the coordinates 0..CoordBound.
OtherArrays == {a \in CubeArrays : \A i \in 1 .. 4 : a[i] >= 0}

OtherBoxes ==
    {BboxInit(a[1], a[2], a[3], a[4]) : a \in OtherArrays \cup FixtureArrays}
    \cup {AnnotationBboxInit(a[1], a[2], a[3], a[4], 0, NoneVal, NoneVal) :
            a \in FixtureArrays}
    \cup {DetectionBboxInit(a[1], a[2], a[3], a[4], 0, 50, NoneVal, NoneVal) :
            a \in FixtureArrays}

\* ------------------------------------------------------------------- calls

\* The record of a call: `before` is the receiver as the call found it,
\* `other` the box argument, `val` what the call returned or raised, and
\* `kind` how it ended: "new" (a newly constructed object is returned),
\* "self" (the receiver itself is returned), "value", "None" or "raise".
Call(op, args, before, other, kind, val) ==
    [op |-> op, args |-> args, before |-> before, other |-> other,
     kind |-> kind, val |-> val]

NoCall == Call("none", <<>>, NoneVal, NoneVal, "none", NoneVal)

\* How a call that constructs its result ended.
KindOf(result) ==
    IF IsBox(result) THEN "new"
    ELSE IF IsValue(result) THEN "value"
    ELSE IF result = NoneVal THEN "None"
    ELSE "raise"

\* The caller's variable after `box = <constructor call>`: a raising call
\* binds nothing.
Bound(result) == IF IsBox(result) THEN result ELSE box

\* The caller's variable is unbound: it is bound by one constructor call
\* (and again by Rebind), and the methods are then called on it.
BboxIdle ==
    /\ box = NoneVal
    /\ ret = NoCall

Init ==
    /\ BboxIdle
    /\ flt = NoneVal
    /\ ds = NoneVal
    /\ trk = NoneVal

NewBbox ==
    /\ box = NoneVal
    /\ \E a \in Arrays4 :
            LET result == BboxInit(a[1], a[2], a[3], a[4])
            IN  /\ box' = Bound(result)
                /\ ret' = Call("__init__", a, NoneVal, NoneVal,
                               KindOf(result), result)
    /\ UNCHANGED notBbox

FromArray ==
    /\ box = NoneVal
    /\ \E a \in Arrays :
            LET result == from_array(a)
            IN  /\ box' = Bound(result)
                /\ ret' = Call("from_array", a, NoneVal, NoneVal,
                               KindOf(result), result)
    /\ UNCHANGED notBbox

FromArrayXywh ==
    /\ box = NoneVal
    /\ \E a \in Arrays :
            LET result == from_array_xywh(a)
            IN  /\ box' = Bound(result)
                /\ ret' = Call("from_array_xywh", a, NoneVal, NoneVal,
                               KindOf(result), result)
    /\ UNCHANGED notBbox

NewAnnotationBbox ==
    /\ box = NoneVal
    /\ \E a \in FixtureArrays, label_idx \in LabelIdxs :
            LET result == AnnotationBboxInit(a[1], a[2], a[3], a[4],
                                             label_idx, NoneVal, NoneVal)
            IN  /\ box' = Bound(result)
                /\ ret' = Call("AnnotationBbox.__init__", a \o <<label_idx>>,
                               NoneVal, NoneVal, KindOf(result), result)
    /\ UNCHANGED notBbox

NewDetectionBbox ==
    /\ box = NoneVal
    /\ \E a \in FixtureArrays, label_idx \in LabelIdxs, score \in Scores :
            LET result == DetectionBboxInit(a[1], a[2], a[3], a[4],
                                            label_idx, score, NoneVal, NoneVal)
            IN  /\ box' = Bound(result)
                /\ ret' = Call("DetectionBbox.__init__",
                               a \o <<label_idx, score>>,
                               NoneVal, NoneVal, KindOf(result), result)
    /\ UNCHANGED notBbox

\* A constructor call with keywords.
CallKw(op, args, kwargs, kind, val) ==
    [op |-> op, args |-> args, kwargs |-> kwargs, before |-> NoneVal,
     other |-> NoneVal, kind |-> kind, val |-> val]

AnnotationFromArray ==
    /\ box = NoneVal
    /\ \E a \in MetaArrays, kwargs \in KwargsOver(MetaKeys) :
            LET result == AnnotationBbox_from_array(a, kwargs)
            IN  /\ box' = Bound(result)
                /\ ret' = CallKw("AnnotationBbox.from_array", a, kwargs,
                                 KindOf(result), result)
    /\ UNCHANGED notBbox

DetectionFromArray ==
    /\ box = NoneVal
    /\ \E a \in MetaArrays, kwargs \in KwargsOver(MetaKeys \cup {"score"}) :
            LET result == DetectionBbox_from_array(a, kwargs)
            IN  /\ box' = Bound(result)
                /\ ret' = CallKw("DetectionBbox.from_array", a, kwargs,
                                 KindOf(result), result)
    /\ UNCHANGED notBbox

Rect ==
    /\ IsBox(box)
    /\ ret' = Call("rect", <<>>, box, NoneVal,
                   KindOf(rect(box)), rect(box))
    /\ UNCHANGED box
    /\ UNCHANGED notBbox

Width ==
    /\ IsBox(box)
    /\ ret' = Call("width", <<>>, box, NoneVal,
                   KindOf(width(box)), width(box))
    /\ UNCHANGED box
    /\ UNCHANGED notBbox

Height ==
    /\ IsBox(box)
    /\ ret' = Call("height", <<>>, box, NoneVal,
                   KindOf(height(box)), height(box))
    /\ UNCHANGED box
    /\ UNCHANGED notBbox

SurfaceArea ==
    /\ IsBox(box)
    /\ ret' = Call("surface_area", <<>>, box, NoneVal,
                   KindOf(surface_area(box)), surface_area(box))
    /\ UNCHANGED box
    /\ UNCHANGED notBbox

IsValid ==
    /\ IsBox(box)
    /\ ret' = Call("is_valid", <<>>, box, NoneVal,
                   KindOf(is_valid(box)), is_valid(box))
    /\ UNCHANGED box
    /\ UNCHANGED notBbox

GetOverlapBboxInPlace ==
    /\ IsBox(box)
    /\ \E other \in OtherBoxes \cup {box} :
        LET result == get_overlap_bbox(box, other)
        IN  /\ ret' = Call("get_overlap_bbox", <<>>, box, other,
                           KindOf(result), result)
            /\ box' = IF IsBox(result) THEN result ELSE box
    /\ UNCHANGED notBbox

GetOverlapBbox ==
    /\ IsBox(box)
    /\ \E other \in OtherBoxes \cup {box} :
        LET result == get_overlap_bbox(box, other)
        IN  ret' = Call("get_overlap_bbox", <<>>, box, other,
                        KindOf(result), result)
    /\ UNCHANGED box
    /\ UNCHANGED notBbox

\* crop mutates the receiver and returns it: `crop` gives the receiver
\* after the call.
Crop ==
    /\ IsBox(box)
    /\ \E max_width \in CropDims, max_height \in CropDims :
        LET result == crop(box, max_width, max_height)
        IN  /\ box' = Bound(result)
            /\ ret' = Call("crop", <<max_width, max_height>>, box, NoneVal,
                           IF IsBox(result) THEN "self" ELSE KindOf(result),
                           result)
    /\ UNCHANGED notBbox

\* The caller binds its variable to the box get_overlap_bbox returned.
Rebind ==
    /\ ret.op = "get_overlap_bbox"
    /\ ret.kind = "new"
    /\ box' = ret.val
    /\ ret' = Call("rebind", <<>>, NoneVal, NoneVal, "none", NoneVal)
    /\ UNCHANGED notBbox

Next ==
    \/ NewBbox
    \/ FromArray
    \/ FromArrayXywh
    \/ NewAnnotationBbox
    \/ NewDetectionBbox
    \/ AnnotationFromArray
    \/ DetectionFromArray
    \/ Rect
    \/ Width
    \/ Height
    \/ SurfaceArea
    \/ IsValid
    \/ GetOverlapBbox
    \/ Crop
    \/ Rebind

Spec == Init /\ [][Next]_vars

\* ------------------------------------------------------------- properties

Constructors == {"__init__", "from_array", "from_array_xywh",
                 "AnnotationBbox.__init__", "DetectionBbox.__init__"}

\* The Python int a constructor was handed in position i.
Arg(i) == ret.args[i] \div 4

\* x clamped into [0, hi], for hi >= 0.
Clamp(x, hi) == IF x < 0 THEN 0 ELSE IF x > hi THEN hi ELSE x

\* C1: every box, however constructed (the constructors, the box returned
\* by get_overlap_bbox) and however often cropped, has left <= right and
\* top <= bottom.
C1_Standardized ==
    /\ IsBox(box) => box.left <= box.right /\ box.top <= box.bottom
    /\ IsBox(ret.val) =>
          ret.val.left <= ret.val.right /\ ret.val.top <= ret.val.bottom

\* _Bbox(l, t, r, b) with ints l > r and t > b: both pairs were swapped.
C1_Witness ==
    /\ ret.op = "__init__"
    /\ AllInt(ret.args)
    /\ Arg(1) > Arg(3)
    /\ Arg(2) > Arg(4)
    /\ box.left = Arg(3)
    /\ box.right = Arg(1)
    /\ box.top = Arg(4)
    /\ box.bottom = Arg(2)

C3_GoldenFixture ==
    (ret.before.cls = "_Bbox" /\ coords(ret.before) = <<0, 10, 100, 1000>>) =>
        /\ ret.op = "width" => ret.val = Value(100)
        /\ ret.op = "height" => ret.val = Value(990)
        /\ ret.op = "surface_area" => ret.val = Value(99000)

\* C4: get_overlap_bbox returns None exactly when the larger left exceeds
\* the smaller right or the larger top exceeds the smaller bottom, and
\* otherwise a new _Bbox, without label or score, of the coordinates (max
\* lefts, max tops, min rights, min bottoms): receiver and argument may be
\* of any box type.  The two fixtures of the tests are cases of it.
C4_Overlap ==
    ret.op = "get_overlap_bbox" =>
        LET a == ret.before
            b == ret.other
            l == IF a.left >= b.left THEN a.left ELSE b.left
            t == IF a.top >= b.top THEN a.top ELSE b.top
            r == IF a.right <= b.right THEN a.right ELSE b.right
            m == IF a.bottom <= b.bottom THEN a.bottom ELSE b.bottom
        IN  /\ ret.kind \in {"None", "new"}
            /\ ret.kind = "None" <=> (l > r \/ t > m)
            /\ ret.kind = "None" => ret.val = NoneVal
            /\ ret.kind = "new" =>
                  ret.val = [cls |-> "_Bbox", left |-> l, top |-> t,
                             right |-> r, bottom |-> m]
            /\ (coords(a) = <<0, 10, 100, 1000>>
                  /\ coords(b) = <<200, 10, 300, 1000>>) => ret.kind = "None"
            /\ (coords(a) = <<0, 10, 100, 1000>>
                  /\ coords(b) = <<0, 500, 100, 2000>>) =>
                  /\ ret.kind = "new"
                  /\ coords(ret.val) = <<0, 500, 100, 1000>>

\* A DetectionBbox at (0,10,100,1000) overlapped with an AnnotationBbox at
\* (0,500,100,2000) gives a plain _Bbox.
C4_Witness ==
    /\ ret.op = "get_overlap_bbox"
    /\ ret.before.cls = "DetectionBbox"
    /\ ret.other.cls = "AnnotationBbox"
    /\ coords(ret.before) = <<0, 10, 100, 1000>>
    /\ coords(ret.other) = <<0, 500, 100, 2000>>
    /\ ret.kind = "new"
    /\ ret.val.cls = "_Bbox"

\* C5: crop(max_width=10, max_height=10) on the box Bbox(0, 10, 100, 1000)
\* yields left=0, top=10, right=10, bottom=20.
C5_CropFixture ==
    (/\ ret.op = "crop"
     /\ ret.args = <<10, 10>>
     /\ coords(ret.before) = <<0, 10, 100, 1000>>) =>
        coords(box) = <<0, 10, 10, 20>>

C7_CropNegative ==
    (ret.op = "crop" /\ (ret.args[1] < 0 \/ ret.args[2] < 0)) =>
        /\ ret.kind = "self"
        /\ ret.val = box
        /\ ret.args[1] < 0 => box.left = box.right
        /\ ret.args[2] < 0 => box.top = box.bottom
        /\ is_valid(box) = Value(FALSE)

\* A box of positive extent cropped with max_width < 0 <= max_height.
C7_Witness ==
    /\ ret.op = "crop"
    /\ ret.args[1] < 0
    /\ ret.args[2] >= 0
    /\ ret.before.left < ret.before.right
    /\ ret.before.top < ret.before.bottom
    /\ box.left = box.right
    /\ ret.kind = "self"

\* C8: is_valid() does not raise and returns True exactly when left < right,
\* top < bottom and every coordinate lies in [-100000, 100000]; it is False
\* for Bbox(0,0,0,0); and each constructor call with four coordinates
\* returns a box, degenerate and out-of-range ones included.
C8_IsValid ==
    /\ ret.op = "is_valid" =>
          LET b == ret.before
          IN  /\ ret.kind = "value"
              /\ ret.val.v \in BOOLEAN
              /\ ret.val.v <=>
                    /\ b.left < b.right
                    /\ b.top < b.bottom
                    /\ \A x \in {b.left, b.top, b.right, b.bottom} :
                          -100000 <= x /\ x <= 100000
              /\ coords(b) = <<0, 0, 0, 0>> => ret.val.v = FALSE
    /\ (ret.op \in Constructors /\ Len(ret.args) >= 4) => ret.kind = "new"

\* is_valid() is False on a box of positive extent whose bottom is beyond
\* MAX_VALID_DIM.
C8_Witness ==
    /\ ret.op = "is_valid"
    /\ ret.before.left < ret.before.right
    /\ ret.before.top < ret.before.bottom
    /\ ret.before.bottom > 100000
    /\ ret.val.v = FALSE

\* C9: for Python ints l, t, r, b in any order, from_array([l,t,r,b]).rect()
\* is [min(l,r), min(t,b), max(l,r), max(t,b)], and so is the rect of
\* _Bbox(l, t, r, b).
C9_FromArrayRoundTrip ==
    (/\ ret.op \in {"from_array", "__init__"}
     /\ Len(ret.args) >= 4
     /\ AllInt(ret.args)) =>
        /\ ret.kind = "new"
        /\ ret.val.cls = "_Bbox"
        /\ rect(ret.val) =
              Value(<<IF Arg(1) <= Arg(3) THEN Arg(1) ELSE Arg(3),
                      IF Arg(2) <= Arg(4) THEN Arg(2) ELSE Arg(4),
                      IF Arg(1) <= Arg(3) THEN Arg(3) ELSE Arg(1),
                      IF Arg(2) <= Arg(4) THEN Arg(4) ELSE Arg(2)>>)

\* from_array of ints with left > right and top < bottom.
C9_Witness ==
    /\ ret.op = "from_array"
    /\ AllInt(ret.args)
    /\ Arg(1) > Arg(3)
    /\ Arg(2) < Arg(4)
    /\ ret.kind = "new"
    /\ coords(ret.val) = <<Arg(3), Arg(2), Arg(1), Arg(4)>>

\* C10: for Python ints, from_array_xywh([l,t,w,h]) is the box of
\* (l, t, l + w, t + h), standardized; [0,10,100,990] gives (0,10,100,1000).
C10_FromArrayXywh ==
    (/\ ret.op = "from_array_xywh"
     /\ Len(ret.args) >= 4
     /\ AllInt(ret.args)) =>
        LET l == Arg(1)
            t == Arg(2)
            r == Arg(1) + Arg(3)
            m == Arg(2) + Arg(4)
        IN  /\ ret.kind = "new"
            /\ ret.val = [cls |-> "_Bbox",
                          left |-> IF l <= r THEN l ELSE r,
                          top |-> IF t <= m THEN t ELSE m,
                          right |-> IF l <= r THEN r ELSE l,
                          bottom |-> IF t <= m THEN m ELSE t]
            /\ ret.args = <<0, 40, 400, 3960>> =>
                  coords(ret.val) = <<0, 10, 100, 1000>>

\* from_array_xywh of ints with a negative width: the pair is swapped.
C10_Witness ==
    /\ ret.op = "from_array_xywh"
    /\ AllInt(ret.args)
    /\ Arg(3) < 0
    /\ Arg(4) > 0
    /\ ret.kind = "new"
    /\ ret.val.left = Arg(1) + Arg(3)
    /\ ret.val.right = Arg(1)

\* C11 (as claimed): from_array and from_array_xywh with an array of any
\* length other than 4 raise, and no box is constructed.
C11_WrongLengthFails ==
    (ret.op \in {"from_array", "from_array_xywh"} /\ Len(ret.args) # 4) =>
        /\ ret.kind = "raise"
        /\ box = NoneVal

\* C11 (amended): with an array of fewer than 4 elements they raise
\* IndexError and no box is constructed; with a longer array they build the
\* box of its first four elements.
C11_ShortArrayFails ==
    /\ (ret.op \in {"from_array", "from_array_xywh"} /\ Len(ret.args) < 4) =>
          /\ ret.kind = "raise"
          /\ ret.val = Raised("IndexError")
          /\ box = NoneVal
    /\ (ret.op = "from_array" /\ Len(ret.args) > 4 /\ AllInt(ret.args)) =>
          /\ ret.kind = "new"
          /\ box = ret.val
          /\ {box.left, box.right} = {Arg(1), Arg(3)}
          /\ {box.top, box.bottom} = {Arg(2), Arg(4)}
    /\ (ret.op = "from_array_xywh" /\ Len(ret.args) > 4
          /\ AllInt(ret.args)) =>
          /\ ret.kind = "new"
          /\ box = ret.val
          /\ {box.left, box.right} = {Arg(1), Arg(1) + Arg(3)}
          /\ {box.top, box.bottom} = {Arg(2), Arg(2) + Arg(4)}

\* from_array of a three-element array raised IndexError; nothing is bound.
C11_Witness ==
    /\ ret.op = "from_array"
    /\ Len(ret.args) = 3
    /\ ret.val = Raised("IndexError")
    /\ box = NoneVal

\* C12: AnnotationBbox.from_array(arr, label_idx=i) and
\* DetectionBbox.from_array(arr, score=s, label_idx=i) succeed with im_path
\* and label_name left out (then None), returning an AnnotationBbox /
\* DetectionBbox of arr's standardized coordinates; they fail only when
\* label_idx (or score) is missing.
C12_MandatoryMetaOnly ==
    /\ (ret.op = "AnnotationBbox.from_array" /\ Len(ret.args) = 4
          /\ DOMAIN ret.kwargs \subseteq MetaKeys) =>
          IF "label_idx" \in DOMAIN ret.kwargs
          THEN /\ ret.kind = "new"
               /\ ret.val.cls = "AnnotationBbox"
               /\ {ret.val.left, ret.val.right} = {Arg(1), Arg(3)}
               /\ {ret.val.top, ret.val.bottom} = {Arg(2), Arg(4)}
               /\ ret.val.label_idx = ret.kwargs.label_idx
               /\ "im_path" \notin DOMAIN ret.kwargs =>
                     ret.val.im_path = NoneVal
               /\ "label_name" \notin DOMAIN ret.kwargs =>
                     ret.val.label_name = NoneVal
          ELSE ret.kind = "raise"
    /\ (ret.op = "DetectionBbox.from_array" /\ Len(ret.args) = 4) =>
          IF {"label_idx", "score"} \subseteq DOMAIN ret.kwargs
          THEN /\ ret.kind = "new"
               /\ ret.val.cls = "DetectionBbox"
               /\ {ret.val.left, ret.val.right} = {Arg(1), Arg(3)}
               /\ {ret.val.top, ret.val.bottom} = {Arg(2), Arg(4)}
               /\ ret.val.label_idx = ret.kwargs.label_idx
               /\ ret.val.score = ret.kwargs.score
          ELSE ret.kind = "raise"

\* C13: with all metadata given, from_array and the constructor build the
\* same object: the same type (DetectionBbox, AnnotationBbox) and equal left,
\* top, right, bottom, label_idx, im_path, label_name and score.
C13_FromArrayAsConstructor ==
    /\ (ret.op = "DetectionBbox.from_array" /\ Len(ret.args) >= 4
          /\ DOMAIN ret.kwargs = MetaKeys \cup {"score"}) =>
          LET kw == ret.kwargs
              a == ret.args
          IN  /\ ret.kind = "new"
              /\ ret.val = DetectionBboxInit(a[1], a[2], a[3], a[4],
                              kw.label_idx, kw.score, kw.im_path,
                              kw.label_name)
              /\ ret.val.cls = "DetectionBbox"
              /\ ret.val.label_idx = kw.label_idx
              /\ ret.val.score = kw.score
              /\ ret.val.im_path = kw.im_path
              /\ ret.val.label_name = kw.label_name
              /\ DOMAIN ret.val = {"cls", "left", "top", "right", "bottom",
                                   "label_idx", "im_path", "label_name",
                                   "score"}
    /\ (ret.op = "AnnotationBbox.from_array" /\ Len(ret.args) >= 4
          /\ DOMAIN ret.kwargs = MetaKeys) =>
          LET kw == ret.kwargs
              a == ret.args
          IN  /\ ret.kind = "new"
              /\ ret.val = AnnotationBboxInit(a[1], a[2], a[3], a[4],
                              kw.label_idx, kw.im_path, kw.label_name)
              /\ ret.val.cls = "AnnotationBbox"
              /\ ret.val.label_idx = kw.label_idx
              /\ ret.val.im_path = kw.im_path
              /\ ret.val.label_name = kw.label_name
              /\ DOMAIN ret.val = {"cls", "left", "top", "right", "bottom",
                                   "label_idx", "im_path", "label_name"}

\* DetectionBbox.from_array of an inverted array with a path, a name and a
\* score returned a DetectionBbox.
C13_Witness ==
    /\ ret.op = "DetectionBbox.from_array"
    /\ ret.args = <<400, 4000, 0, 40>>
    /\ DOMAIN ret.kwargs = MetaKeys \cup {"score"}
    /\ ret.kwargs.im_path = Str("im.jpg")
    /\ ret.kwargs.label_name = Str("cat")
    /\ ret.kwargs.score = 50
    /\ ret.kind = "new"
    /\ coords(ret.val) = <<0, 10, 100, 1000>>

\* The methods of a box other than crop.
PureMethods ==
    {"rect", "width", "height", "surface_area", "get_overlap_bbox",
     "is_valid"}

\* C14 (as claimed): no call of rect, width, height, surface_area,
\* get_overlap_bbox, crop or is_valid changes the coordinates of the box it
\* is called on.
C14_NoMethodMutates ==
    [][(IsBox(box) /\ ret'.op \in PureMethods \cup {"crop"}) =>
          (IsBox(box') /\ coords(box') = coords(box))]_vars

\* C14 (amended): no call of rect, width, height, surface_area,
\* get_overlap_bbox or is_valid changes the box it is called on, so a shared
\* box that reports rect [0,10,100,1000] and is_valid() == True does so after
\* any of them; crop is the exception, it changes its receiver in place and
\* returns it.
C14_OnlyCropMutates ==
    [][/\ (IsBox(box) /\ ret'.op \in PureMethods) =>
            /\ box' = box
            /\ ret'.before = box
            /\ (coords(box) = <<0, 10, 100, 1000>>) =>
                  /\ rect(box') = Value(<<0, 10, 100, 1000>>)
                  /\ is_valid(box') = Value(TRUE)
       /\ (IsBox(box) /\ ret'.op = "crop" /\ ret'.kind = "self") =>
            /\ box' = ret'.val
            /\ box' = crop(box, ret'.args[1], ret'.args[2])]_vars

\* get_overlap_bbox on the fixture returned a new, smaller box and the
\* fixture is as it was.
C14_Witness ==
    /\ ret.op = "get_overlap_bbox"
    /\ ret.kind = "new"
    /\ coords(ret.before) = <<0, 10, 100, 1000>>
    /\ coords(ret.val) # coords(ret.before)
    /\ box = ret.before

\* ------------------------------------------- detection: score threshold
\* get_bounding_boxes (detection/model.py) and the filter of a list of
\* DetectionBbox.  Scores and thresholds are in hundredths; box coordinates
\* of a prediction are floats, in quarters.

MaxPreds == 3

DefaultThreshold == 60

\* ndarray.astype(np.int32) of a float: truncation towards zero.
AsInt32(q) == IF q >= 0 THEN q \div 4 ELSE -((-q) \div 4)

RECURSIVE QualifyPrepend(_, _, _, _, _, _, _)
QualifyPrepend(i, pred_labels, pred_boxes, pred_scores, threshold, qualified_labels, qualified_boxes) ==
    IF i > Min(Len(pred_labels), Min(Len(pred_boxes), Len(pred_scores)))
    THEN [labels |-> qualified_labels, boxes |-> qualified_boxes]
    ELSE IF pred_scores[i] > threshold
         THEN QualifyPrepend(i + 1, pred_labels, pred_boxes, pred_scores,
                             threshold,
                             <<pred_labels[i]>> \o qualified_labels,
                             <<pred_boxes[i]>> \o qualified_boxes)
         ELSE QualifyPrepend(i + 1, pred_labels, pred_boxes, pred_scores,
                             threshold, qualified_labels, qualified_boxes)

RECURSIVE QualifyInclusive(_, _, _, _, _, _, _)
QualifyInclusive(i, pred_labels, pred_boxes, pred_scores, threshold, qualified_labels, qualified_boxes) ==
    IF i > Min(Len(pred_labels), Min(Len(pred_boxes), Len(pred_scores)))
    THEN [labels |-> qualified_labels, boxes |-> qualified_boxes]
    ELSE IF pred_scores[i] >= threshold
         THEN QualifyInclusive(i + 1, pred_labels, pred_boxes, pred_scores,
                               threshold,
                               Append(qualified_labels, pred_labels[i]),
                               Append(qualified_boxes, pred_boxes[i]))
         ELSE QualifyInclusive(i + 1, pred_labels, pred_boxes, pred_scores,
                               threshold, qualified_labels, qualified_boxes)

\* The loop of get_bounding_boxes from position i of the zipped lists on.
RECURSIVE Qualify(_, _, _, _, _, _, _)
Qualify(i, pred_labels, pred_boxes, pred_scores, threshold, qualified_labels, qualified_boxes) ==
    IF i > Min(Len(pred_labels), Min(Len(pred_boxes), Len(pred_scores)))
    THEN [labels |-> qualified_labels, boxes |-> qualified_boxes]
    ELSE IF pred_scores[i] > threshold
         THEN Qualify(i + 1, pred_labels, pred_boxes, pred_scores, threshold,
                      Append(qualified_labels, pred_labels[i]),
                      Append(qualified_boxes, pred_boxes[i]))
         ELSE Qualify(i + 1, pred_labels, pred_boxes, pred_scores, threshold,
                      qualified_labels, qualified_boxes)

\* get_bounding_boxes(pred, threshold): pred is pred[0], the dict of the
\* parallel tensors labels, boxes and scores.
get_bounding_boxes(pred, threshold) ==
    LET pred_labels == pred.labels
        pred_boxes == [i \in DOMAIN pred.boxes |->
                          [c \in DOMAIN pred.boxes[i] |->
                              AsInt32(pred.boxes[i][c])]]
        pred_scores == pred.scores
    IN  Qualify(1, pred_labels, pred_boxes, pred_scores, threshold,
                <<>>, <<>>)

ApplyThresholdSkipFirst(det_bboxes, threshold) ==
    LET kept == SelectSeq(det_bboxes, LAMBDA b : b.score > threshold)
    IN  IF kept = <<>> THEN kept ELSE Tail(kept)

\* The filter of a list of DetectionBbox: the boxes whose score exceeds the
\* threshold, in their order.
apply_threshold(det_bboxes, threshold) ==
    SelectSeq(det_bboxes, LAMBDA b : b.score > threshold)

\* ---- inputs
FilterScores == {10, 90}

Thresholds == {0, 10, DefaultThreshold, 90, 100}

\* Two float boxes; the second has fractional and negative coordinates.
PredBoxes == {<<0, 40, 400, 4000>>, <<-3, 83, 801, 2003>>}

PredEntries ==
    [label : 1 .. 2, box : PredBoxes, score : FilterScores]

\* A detector's output: equally long labels, boxes and scores.
Preds ==
    {[labels |-> [i \in DOMAIN e |-> e[i].label],
      boxes |-> [i \in DOMAIN e |-> e[i].box],
      scores |-> [i \in DOMAIN e |-> e[i].score]] :
     e \in UNION {[1 .. n -> PredEntries] : n \in 0 .. MaxPreds}}

DetBboxes ==
    {DetectionBboxInit(Q(0), Q(10), Q(100), Q(1000), l, sc, NoneVal, NoneVal) :
     l \in LabelIdxs, sc \in FilterScores}

DetBboxLists == UNION {[1 .. n -> DetBboxes] : n \in 0 .. MaxPreds}

\* ---- actions
\* The record of a call of get_bounding_boxes; prev is the call before it
\* on the same prediction.
FilterCall(pred, threshold, result, prev) ==
    [op |-> "get_bounding_boxes", pred |-> pred, threshold |-> threshold,
     labels |-> result.labels, boxes |-> result.boxes, prev |-> prev]

GetBoundingBoxes ==
    /\ flt = NoneVal
    /\ \E pred \in Preds, threshold \in Thresholds :
        flt' = FilterCall(pred, threshold,
                          get_bounding_boxes(pred, threshold), NoneVal)
    /\ UNCHANGED <<box, ret, ds, trk>>

\* The same prediction filtered again with another threshold.
Rethreshold ==
    /\ flt # NoneVal
    /\ flt.op = "get_bounding_boxes"
    /\ \E threshold \in Thresholds :
        flt' = FilterCall(flt.pred, threshold,
                          get_bounding_boxes(flt.pred, threshold),
                          [threshold |-> flt.threshold,
                           labels |-> flt.labels, boxes |-> flt.boxes])
    /\ UNCHANGED <<box, ret, ds, trk>>

ApplyThreshold ==
    /\ flt = NoneVal
    /\ \E det_bboxes \in DetBboxLists, threshold \in Thresholds :
        flt' = [op |-> "_apply_threshold", det_bboxes |-> det_bboxes,
                threshold |-> threshold,
                out |-> apply_threshold(det_bboxes, threshold),
                prev |-> NoneVal]
    /\ UNCHANGED <<box, ret, ds, trk>>

\* The filter applied to the list the filter returned.
Reapply ==
    /\ flt # NoneVal
    /\ flt.op = "_apply_threshold"
    /\ \E threshold \in Thresholds :
        flt' = [op |-> "_apply_threshold", det_bboxes |-> flt.out,
                threshold |-> threshold,
                out |-> apply_threshold(flt.out, threshold),
                prev |-> [threshold |-> flt.threshold]]
    /\ UNCHANGED <<box, ret, ds, trk>>

FilterNext ==
    \/ GetBoundingBoxes
    \/ Rethreshold
    \/ ApplyThreshold
    \/ Reapply

FilterSpec == Init /\ [][FilterNext]_vars

\* ---- properties of the filter
\* The k-th smallest element of a set of numbers.
Kth(S, k) == CHOOSE x \in S : Cardinality({y \in S : y < x}) = k - 1

\* The positions of pred whose score exceeds t.
Above(pred, t) == {i \in DOMAIN pred.scores : pred.scores[i] > t}

\* The integer box of position i of pred.
IntBox(pred, i) == [c \in 1 .. 4 |-> AsInt32(pred.boxes[i][c])]

\* (labels, boxes) is made of the positions S of (plabels, pboxes), in order.
Selects(labels, boxes, plabels, pboxes, S) ==
    /\ Len(labels) = Cardinality(S)
    /\ Len(boxes) = Cardinality(S)
    /\ \A k \in 1 .. Cardinality(S) :
          /\ labels[k] = plabels[Kth(S, k)]
          /\ boxes[k] = pboxes[Kth(S, k)]

\* C15: get_bounding_boxes returns exactly the predictions whose score is
\* strictly greater than the threshold, in their original order, none
\* dropped, merged or repeated, labels and boxes equally long and aligned by
\* index; and a call with a threshold at least as high as the call before
\* returns no prediction the call before did not return.
C15_ThresholdFilter ==
    (flt # NoneVal /\ flt.op = "get_bounding_boxes") =>
        LET S == Above(flt.pred, flt.threshold)
        IN  /\ Len(flt.labels) = Len(flt.boxes)
            /\ Len(flt.labels) = Cardinality(S)
            /\ \A k \in 1 .. Cardinality(S) :
                  /\ flt.labels[k] = flt.pred.labels[Kth(S, k)]
                  /\ flt.boxes[k] = IntBox(flt.pred, Kth(S, k))
            /\ (flt.prev # NoneVal /\ flt.threshold >= flt.prev.threshold) =>
                  /\ Len(flt.labels) <= Len(flt.prev.labels)
                  /\ \E T \in SUBSET (1 .. Len(flt.prev.labels)) :
                        Selects(flt.labels, flt.boxes,
                                flt.prev.labels, flt.prev.boxes, T)

\* Of three predictions with scores 0.9, 0.1, 0.9 and different labels, the
\* filter at the default threshold kept the first and the third, in order.
C15_Witness ==
    /\ flt # NoneVal
    /\ flt.op = "get_bounding_boxes"
    /\ flt.threshold = DefaultThreshold
    /\ flt.pred.scores = <<90, 10, 90>>
    /\ flt.pred.labels = <<2, 2, 1>>
    /\ flt.pred.boxes[3] = <<-3, 83, 801, 2003>>
    /\ flt.labels = <<2, 1>>
    /\ flt.boxes[2] = <<0, 20, 200, 500>>
    /\ flt.prev # NoneVal
    /\ flt.prev.threshold = 0
    /\ Len(flt.prev.labels) = 3

\* C16 (as claimed): for a non-empty prediction list, a threshold >= the
\* maximum score yields an empty result and a threshold <= the minimum score
\* yields the full list.
C16_EdgeThresholds ==
    (flt # NoneVal /\ flt.op = "get_bounding_boxes"
       /\ Len(flt.pred.scores) > 0) =>
        /\ flt.threshold >= SeqMax(flt.pred.scores) =>
              (flt.labels = <<>> /\ flt.boxes = <<>>)
        /\ flt.threshold <= SeqMin(flt.pred.scores) =>
              /\ flt.labels = flt.pred.labels
              /\ Len(flt.boxes) = Len(flt.pred.boxes)

\* C16 (amended): for a non-empty prediction list, a threshold >= the
\* maximum score yields an empty result and a threshold < the minimum score
\* yields the full list.
C16_EdgeThresholdsStrict ==
    (flt # NoneVal /\ flt.op = "get_bounding_boxes"
       /\ Len(flt.pred.scores) > 0) =>
        /\ flt.threshold >= SeqMax(flt.pred.scores) =>
              (flt.labels = <<>> /\ flt.boxes = <<>>)
        /\ flt.threshold < SeqMin(flt.pred.scores) =>
              /\ flt.labels = flt.pred.labels
              /\ flt.boxes = [i \in DOMAIN flt.pred.boxes |->
                                 IntBox(flt.pred, i)]

\* A threshold equal to the highest score emptied a list of two
\* predictions.
C16_Witness ==
    /\ flt # NoneVal
    /\ flt.op = "get_bounding_boxes"
    /\ flt.pred.scores = <<10, 90>>
    /\ flt.threshold = 90
    /\ flt.labels = <<>>

\* C17: the filter applied with threshold t to the list the filter returned
\* for the same t returns that list, the same elements in the same order.
C17_FilterIdempotent ==
    (flt # NoneVal /\ flt.op = "_apply_threshold" /\ flt.prev # NoneVal
       /\ flt.prev.threshold = flt.threshold) =>
        flt.out = flt.det_bboxes

\* The filter at 0.6 was applied again to the two boxes it had kept.
C17_Witness ==
    /\ flt # NoneVal
    /\ flt.op = "_apply_threshold"
    /\ flt.prev # NoneVal
    /\ flt.prev.threshold = DefaultThreshold
    /\ flt.threshold = DefaultThreshold
    /\ Len(flt.det_bboxes) = 2
    /\ flt.det_bboxes[1] # flt.det_bboxes[2]
    /\ flt.out = flt.det_bboxes

\* --------------------------------------- detection: DetectionDataset split
\* DetectionDataset.split_train_test (detection/dataset.py).  train_pct is
\* in quarters (0, 0.25, 0.5, 0.75, 1), for which 1 - train_pct and its
\* product with len(self) are exact floats; indices are 0-based.

MaxIms == 2

\* train_pct = 0.5, the default of DetectionDataset.__init__, in quarters.
InitTrainPct == 2

\* s[a:b] of a list, 0 <= a.
Slice(s, a, b) == SubSeq(s, a + 1, Min(b, Len(s)))

Range(s) == {s[i] : i \in DOMAIN s}

\* torch.randperm(n).tolist(): any order of 0 .. n-1.
RandPerms(n) ==
    {f \in [1 .. n -> 0 .. n - 1] : \A i, j \in 1 .. n : f[i] = f[j] => i = j}

\* split_train_test on a dataset of n images, randperm having returned
\* indices: the attributes it sets and the two Subsets it returns.
split_train_test(n, train_pct, indices) ==
    LET test_num == (n * (4 - train_pct)) \div 4
        train_idx == Slice(indices, test_num, Len(indices))
        test_idx == Slice(indices, 0, test_num + 1)
    IN  [cls |-> "DetectionDataset", n |-> n, train_pct |-> train_pct,
         indices |-> indices,
         is_test |-> [i \in 0 .. n - 1 |-> i \in Range(test_idx)],
         train |-> train_idx, test |-> test_idx]

TrainPcts == 0 .. 4

\* The transforms argument: the default pair (train, test), or one
\* transform in a list.
TransformArgs == {<<"train_tf", "test_tf">>, <<"only_tf">>}

\* self.transforms after __init__: the pair made for a single transform is
\* assigned first, and then the argument is assigned over it.
init_transforms(transforms) ==
    LET first == IF Len(transforms) = 1 THEN <<transforms, transforms>>
                 ELSE <<>>
        second == transforms
    IN  second

\* _get_transforms(idx): self.transforms[self.is_test[idx]], False and True
\* indexing as 0 and 1.
get_transforms(transforms, is_test, idx) ==
    LET i == IF is_test[idx] THEN 1 ELSE 0
    IN  IF i + 1 \in DOMAIN transforms THEN Value(transforms[i + 1])
        ELSE Raised("IndexError")

\* No Subset of an earlier split, no call of _get_transforms yet.
NoSubsets == [train |-> <<>>, test |-> <<>>]

NoGot == [subset |-> "none", idx |-> 0, val |-> NoneVal]

\* The Subsets a caller may hold: of the last split and of the one before.
SubsetOf(d, name) ==
    IF name = "train" THEN d.train
    ELSE IF name = "test" THEN d.test
    ELSE IF name = "earlier_train" THEN d.earlier.train
    ELSE d.earlier.test

SubsetNames == {"train", "test", "earlier_train", "earlier_test"}

\* DetectionDataset(root, transforms): _read_annos finds n annotated images,
\* then _get_dataloader splits them with the constructor's train_pct.
NewDetectionDataset ==
    /\ ds = NoneVal
    /\ \E n \in 1 .. MaxIms, transforms \in TransformArgs :
        \E indices \in RandPerms(n) :
            ds' = [op |-> "__init__", transforms_arg |-> transforms,
                   transforms |-> init_transforms(transforms),
                   earlier |-> NoSubsets, got |-> NoGot]
                  @@ split_train_test(n, InitTrainPct, indices)
    /\ UNCHANGED <<box, ret, flt, trk>>

SplitTrainTestKeepsFlags ==
    /\ ds # NoneVal
    /\ \E train_pct \in TrainPcts, indices \in RandPerms(ds.n) :
        LET split == split_train_test(ds.n, train_pct, indices)
        IN  ds' = [op |-> "split_train_test",
                   transforms_arg |-> ds.transforms_arg,
                   transforms |-> ds.transforms,
                   earlier |-> [train |-> ds.train, test |-> ds.test],
                   got |-> NoGot,
                   is_test |-> [i \in 0 .. ds.n - 1 |->
                                   ds.is_test[i] \/ split.is_test[i]]]
                  @@ split
    /\ UNCHANGED <<box, ret, flt, trk>>

\* split_train_test(train_pct) on the dataset; the caller still holds the
\* Subsets of the split before.
SplitTrainTest ==
    /\ ds # NoneVal
    /\ \E train_pct \in TrainPcts, indices \in RandPerms(ds.n) :
        ds' = [op |-> "split_train_test",
               transforms_arg |-> ds.transforms_arg,
               transforms |-> ds.transforms,
               earlier |-> [train |-> ds.train, test |-> ds.test],
               got |-> NoGot]
              @@ split_train_test(ds.n, train_pct, indices)
    /\ UNCHANGED <<box, ret, flt, trk>>

\* An item is taken through a Subset: Subset[k] is dataset[idx], whose
\* __getitem__ calls _get_transforms(idx).
GetTransforms ==
    /\ ds # NoneVal
    /\ \E name \in SubsetNames :
        \E k \in DOMAIN SubsetOf(ds, name) :
            LET idx == SubsetOf(ds, name)[k]
            IN  ds' = [ds EXCEPT
                         !.op = "_get_transforms",
                         !.got = [subset |-> name, idx |-> idx,
                                  val |-> get_transforms(ds.transforms,
                                                         ds.is_test, idx)]]
    /\ UNCHANGED <<box, ret, flt, trk>>

SplitNext ==
    \/ NewDetectionDataset
    \/ SplitTrainTest
    \/ GetTransforms

SplitSpec == Init /\ [][SplitNext]_vars

\* C18: after split_train_test(train_pct) the train and the test index sets
\* are disjoint, together hold every index 0 .. n-1 exactly once, and the
\* test set holds floor(n * (1 - train_pct)) indices.
C18_SplitPartition ==
    (ds # NoneVal /\ ds.op = "split_train_test") =>
        /\ Range(ds.train) \cap Range(ds.test) = {}
        /\ Range(ds.train) \cup Range(ds.test) = 0 .. ds.n - 1
        /\ Len(ds.train) + Len(ds.test) = ds.n
        /\ Len(ds.test) = (ds.n * (4 - ds.train_pct)) \div 4

\* ------------------------------------------------- tracking: evaluation
\* savetxt_results, evaluate_mot, mot_summary and TrackingLearner.evaluate /
\* eval_mot (tracking/model.py) over a file system: a path is a sequence of
\* names, fs.dirs and fs.files are the paths that exist.

MaxSeqs == 2

MaxEpochs == 2

\* predict's defaults of det_thres and nms_thres (in hundredths), of
\* min_box_area and of frame_rate.
DefaultDetThres == 30

DefaultNmsThres == 40

DefaultMinBoxArea == 200

DefaultFrameRate == 30

Path(p) == [cls |-> "path", p |-> p]

Prefixes(p) == {SubSeq(p, 1, k) : k \in 1 .. Len(p)}

IsUnder(p, d) == Len(p) >= Len(d) /\ SubSeq(p, 1, Len(d)) = d

Parent(p) == SubSeq(p, 1, Len(p) - 1)

\* os.makedirs(p).
makedirs(fs, p) == [fs EXCEPT !.dirs = @ \cup Prefixes(p)]

\* Leaving `with tempfile.TemporaryDirectory() as d`: d and all below it
\* are removed.
cleanup(fs, d) ==
    [dirs |-> {p \in fs.dirs : ~IsUnder(p, d)},
     files |-> {p \in fs.files : ~IsUnder(p, d)}]

\* np.savetxt(p, ...): opens p for writing, which needs p's directory.
savetxt(fs, p) ==
    IF Parent(p) \in fs.dirs
    THEN [fs |-> [fs EXCEPT !.files = @ \cup {p}], val |-> Path(p)]
    ELSE [fs |-> fs, val |-> Raised("FileNotFoundError")]

\* savetxt_results(results, exp_name, root_path, result_filename); tmpdir1
\* is the name TemporaryDirectory picks.  The with block is left before
\* the file is written.
savetxt_results(fs, exp_name, root_path, result_filename, tmpdir1) ==
    IF root_path = NoneVal
    THEN LET made == makedirs(fs, <<tmpdir1, exp_name>>)
             result_path == <<tmpdir1, exp_name, result_filename>>
             left == cleanup(made, <<tmpdir1>>)
         IN  savetxt(left, result_path)
    ELSE savetxt(fs, root_path.p \o <<exp_name, result_filename>>)

\* evaluate_mot(gt_root_path, exp_name, result_path): the evaluator reads
\* the result file and returns an accumulator.
evaluate_mot(fs, gt_root_path, exp_name, result_path) ==
    IF result_path \in fs.files
    THEN [cls |-> "MOTAccumulator", gt |-> gt_root_path \o <<exp_name>>,
          result_path |-> result_path]
    ELSE Raised("FileNotFoundError")

\* mot_summary(accumulators, exp_names): the rendered summary.
mot_summary(accumulators, exp_names) ==
    [cls |-> "strsummary", accumulators |-> accumulators,
     exp_names |-> exp_names]

\* The parameters of predict as a call with five positional arguments
\* binds them.
predict_args(a1, a2, a3, a4, a5) ==
    [im_or_video_path |-> a1, conf_thres |-> a2, det_thres |-> a3,
     nms_thres |-> a4, track_buffer |-> a5,
     min_box_area |-> DefaultMinBoxArea, frame_rate |-> DefaultFrameRate]

\* ---- inputs
SeqNames == {"MOT-01", "MOT-02"}

\* '{}.txt'.format(seq).
ResultFilename(seq) == IF seq = "MOT-01" THEN "MOT-01.txt" ELSE "MOT-02.txt"

\* frameRate of each sequence's seqinfo.ini.
FrameRate(seq) == IF seq = "MOT-01" THEN 25 ELSE 14

SeqLists == UNION {[1 .. n -> SeqNames] : n \in 0 .. MaxSeqs}

TrackBuffers == {30, 50}

ConfThres == {60}

ImSizes == {<<1088, 608>>}

TmpNames == {"tmpa", "tmpb"}

\* The data set on disk, and the result files of `done` from an earlier run.
DiskWith(done) ==
    [dirs |-> {<<"data">>}
              \cup {<<"data", q>> : q \in SeqNames}
              \cup {<<"data", q, "img1">> : q \in SeqNames}
              \cup (IF done = {} THEN {} ELSE {<<"out">>, <<"out", "exp">>}),
     files |-> {<<"data", q, "seqinfo.ini">> : q \in SeqNames}
               \cup {<<"out", "exp", ResultFilename(q)>> : q \in done}]

\* ---- eval_mot
\* One pass of eval_mot's loop, for seqs[i]; st holds the file system, the
\* accumulators, the calls of predict made so far and the exception raised.
eval_mot_seq(a, seq, st, tmpdir1) ==
    LET im_path == a.data_root \o <<seq, "img1">>
        result_filename == ResultFilename(seq)
        result_path == a.result_root \o <<a.exp_name, result_filename>>
        frame_rate == FrameRate(seq)
        tracked == result_path \notin st.fs.files
        saved == IF tracked
                 THEN savetxt_results(st.fs, a.exp_name,
                                      Path(a.result_root), result_filename,
                                      tmpdir1)
                 ELSE [fs |-> st.fs, val |-> Path(result_path)]
        predicts == IF tracked
                    THEN Append(st.predicts,
                                predict_args(im_path, a.conf_thres,
                                             a.track_buffer, a.im_size,
                                             frame_rate))
                    ELSE st.predicts
        mot_accumulator ==
            evaluate_mot(saved.fs, a.data_root, seq, saved.val.p)
    IN  IF <<"data", seq, "seqinfo.ini">> \notin st.fs.files
        THEN [st EXCEPT !.raised = Raised("FileNotFoundError")]
        ELSE IF saved.val.cls # "path"
        THEN [st EXCEPT !.fs = saved.fs, !.predicts = predicts,
                        !.raised = saved.val]
        ELSE IF ~a.run_eval
        THEN [st EXCEPT !.fs = saved.fs, !.predicts = predicts]
        ELSE IF mot_accumulator.cls # "MOTAccumulator"
        THEN [st EXCEPT !.fs = saved.fs, !.predicts = predicts,
                        !.raised = mot_accumulator]
        ELSE [st EXCEPT !.fs = saved.fs, !.predicts = predicts,
                        !.accumulators = Append(@, mot_accumulator)]

RECURSIVE eval_mot_loop(_, _, _, _)
eval_mot_loop(i, a, st, tmpdir1) ==
    IF i > Len(a.seqs) \/ st.raised # NoneVal THEN st
    ELSE eval_mot_loop(i + 1, a, eval_mot_seq(a, a.seqs[i], st, tmpdir1),
                       tmpdir1)

\* TrackingLearner.eval_mot(conf_thres, track_buffer, im_size, data_root,
\* seqs, result_root, exp_name, run_eval): the state it leaves and `val`,
\* what it returns or raises.
eval_mot(fs, a, tmpdir1) ==
    LET eval_path == a.result_root \o <<a.exp_name>>
        st0 == [fs |-> IF eval_path \notin fs.dirs
                       THEN makedirs(fs, eval_path) ELSE fs,
                accumulators |-> <<>>, predicts |-> <<>>,
                raised |-> NoneVal]
        st == eval_mot_loop(1, a, st0, tmpdir1)
    IN  [fs |-> st.fs, accumulators |-> st.accumulators,
         predicts |-> st.predicts,
         val |-> IF st.raised # NoneVal THEN st.raised
                 ELSE IF a.run_eval THEN NoneVal
                 ELSE mot_summary(st.accumulators, a.seqs)]

\* TrackingLearner.evaluate(results, gt_root_path).
evaluate(fs, gt_root_path, tmpdir1) ==
    LET saved == savetxt_results(fs, "single_vid", NoneVal, "results.txt",
                                 tmpdir1)
        mot_accumulator ==
            evaluate_mot(saved.fs, gt_root_path, "single_vid", saved.val.p)
    IN  IF saved.val.cls # "path" THEN saved
        ELSE IF mot_accumulator.cls # "MOTAccumulator"
        THEN [fs |-> saved.fs, val |-> mot_accumulator]
        ELSE [fs |-> saved.fs,
              val |-> mot_summary(<<mot_accumulator>>, <<"single_vid">>)]

\* ---- fit
\* The learner after __init__: the dataset given or not, self.model None,
\* no optimizer attribute yet.
NewLearner(dataset) ==
    [dataset |-> dataset, model |-> NoneVal, optimizer |-> NoneVal]

\* The model create_model / load_model build: a new object.
NewModel(old) == [cls |-> "model", id |-> old.id + 1]

\* TrackingLearner.fit(lr, lr_step, num_epochs): the learner it leaves and
\* `val`, None or what it raises.  self.optimizer is built from
\* self.model.parameters() before self.model is created; in the epoch loop
\* `epoch in opt_fit.lr_step` tests an int against the str lr_step.
fit(learner, lr_step, num_epochs) ==
    IF ~learner.dataset
    THEN [learner |-> learner, val |-> Raised("Exception")]
    ELSE IF learner.model = NoneVal
    THEN [learner |-> learner, val |-> Raised("AttributeError")]
    ELSE [learner |-> [learner EXCEPT
                         !.optimizer = [cls |-> "Adam",
                                        params |-> learner.model.id],
                         !.model = NewModel(learner.model)],
          val |-> IF num_epochs >= 1 THEN Raised("TypeError") ELSE NoneVal]

\* ---- actions
TrackCall(learner, fs, op, args, val, predicts, accumulators) ==
    [learner |-> learner, fs |-> fs, op |-> op, args |-> args, val |-> val,
     predicts |-> predicts, accumulators |-> accumulators]

\* A learner, and the disk it works on.
NewTrackingLearner ==
    /\ trk = NoneVal
    /\ \E done \in SUBSET SeqNames, dataset \in BOOLEAN :
        trk' = TrackCall(NewLearner(dataset), DiskWith(done), "__init__",
                         NoneVal, NoneVal,
                         <<>>, <<>>)
    /\ UNCHANGED <<box, ret, flt, ds>>

SavetxtResults ==
    /\ trk # NoneVal
    /\ \E given \in BOOLEAN, q \in SeqNames, tmpdir1 \in TmpNames :
        LET root_path == IF given THEN Path(<<"out">>) ELSE NoneVal
            saved == savetxt_results(trk.fs, "exp", root_path,
                                     ResultFilename(q), tmpdir1)
        IN  trk' = TrackCall(trk.learner, saved.fs, "savetxt_results",
                             [exp_name |-> "exp", root_path |-> root_path,
                              result_filename |-> ResultFilename(q)],
                             saved.val, <<>>, <<>>)
    /\ UNCHANGED <<box, ret, flt, ds>>

Evaluate ==
    /\ trk # NoneVal
    /\ \E tmpdir1 \in TmpNames :
        LET done == evaluate(trk.fs, <<"data">>, tmpdir1)
        IN  trk' = TrackCall(trk.learner, done.fs, "evaluate",
                             [gt_root_path |-> <<"data">>], done.val,
                             <<>>, <<>>)
    /\ UNCHANGED <<box, ret, flt, ds>>

EvalMot ==
    /\ trk # NoneVal
    /\ \E conf_thres \in ConfThres, track_buffer \in TrackBuffers,
          im_size \in ImSizes, seqs \in SeqLists, run_eval \in BOOLEAN,
          tmpdir1 \in TmpNames :
        LET a == [conf_thres |-> conf_thres, track_buffer |-> track_buffer,
                  im_size |-> im_size, data_root |-> <<"data">>,
                  seqs |-> seqs, result_root |-> <<"out">>,
                  exp_name |-> "exp", run_eval |-> run_eval]
            done == eval_mot(trk.fs, a, tmpdir1)
        IN  trk' = TrackCall(trk.learner, done.fs, "eval_mot", a, done.val,
                             done.predicts, done.accumulators)
    /\ UNCHANGED <<box, ret, flt, ds>>

Fit ==
    /\ trk # NoneVal
    /\ \E lr_step \in {"20,27", "1"}, num_epochs \in 0 .. MaxEpochs :
        LET done == fit(trk.learner, lr_step, num_epochs)
        IN  trk' = TrackCall(done.learner, trk.fs, "fit",
                             [lr_step |-> lr_step,
                              num_epochs |-> num_epochs],
                             done.val, <<>>, <<>>)
    /\ UNCHANGED <<box, ret, flt, ds>>

TrackNext ==
    \/ NewTrackingLearner
    \/ SavetxtResults
    \/ Evaluate
    \/ EvalMot
    \/ Fit

TrackSpec == Init /\ [][TrackNext]_vars

\* C19: savetxt_results without root_path returns the path of the file it
\* saved in a temporary directory, a file that exists afterwards, and
\* TrackingLearner.evaluate, which calls it so, returns the summary of the
\* saved results.
C19_SavedInTmp ==
    /\ (trk # NoneVal /\ trk.op = "savetxt_results"
          /\ trk.args.root_path = NoneVal) =>
          /\ trk.val.cls = "path"
          /\ trk.val.p \in trk.fs.files
    /\ (trk # NoneVal /\ trk.op = "evaluate") =>
          /\ trk.val.cls = "strsummary"
          /\ Len(trk.val.accumulators) = 1

\* C20: eval_mot with run_eval True returns the summary over exactly one
\* accumulator per sequence of seqs, in order; with run_eval False it
\* creates no accumulator and computes no summary.
C20_EvalMotSummary ==
    (trk # NoneVal /\ trk.op = "eval_mot") =>
        IF trk.args.run_eval
        THEN /\ trk.val.cls = "strsummary"
             /\ Len(trk.val.accumulators) = Len(trk.args.seqs)
             /\ \A i \in 1 .. Len(trk.args.seqs) :
                   trk.val.accumulators[i].result_path =
                       <<"out", "exp", ResultFilename(trk.args.seqs[i])>>
        ELSE /\ trk.accumulators = <<>>
             /\ trk.val.cls # "strsummary"

\* ---- properties of the dataset's transforms
\* C21: after split_train_test, _get_transforms(idx) returns transforms[0]
\* for every index of the training subset and transforms[1] for every index
\* of the testing subset.
C21_TransformOfSubset ==
    (ds # NoneVal /\ ds.op = "_get_transforms"
       /\ Len(ds.transforms) = 2) =>
        /\ ds.got.subset = "train" => ds.got.val = Value(ds.transforms[1])
        /\ ds.got.subset = "test" => ds.got.val = Value(ds.transforms[2])

\* C23: a dataset constructed with a single transform has self.transforms a
\* pair of that transform twice, and _get_transforms gives that transform
\* for training and for testing items.
C23_SingleTransform ==
    (ds # NoneVal /\ Len(ds.transforms_arg) = 1) =>
        /\ ds.transforms = <<ds.transforms_arg[1], ds.transforms_arg[1]>>
        /\ ds.op = "_get_transforms" =>
              ds.got.val = Value(ds.transforms_arg[1])

\* C24: is_test[i] is true exactly for the indices of the test set the last
\* split_train_test returned, and an item taken through a Subset of an
\* earlier split gets the transform the last split's flags choose.
C24_LastSplitDecides ==
    (ds # NoneVal) =>
        /\ DOMAIN ds.is_test = 0 .. ds.n - 1
        /\ \A i \in 0 .. ds.n - 1 : ds.is_test[i] <=> i \in Range(ds.test)
        /\ (ds.op = "_get_transforms" /\ Len(ds.transforms) = 2) =>
              ds.got.val =
                  Value(IF ds.got.idx \in Range(ds.test)
                        THEN ds.transforms[2] ELSE ds.transforms[1])

\* An index that the split before had put in its test set, and the last
\* split did not, was taken through the earlier test Subset and got the
\* training transform.
C24_Witness ==
    /\ ds # NoneVal
    /\ ds.op = "_get_transforms"
    /\ ds.got.subset = "earlier_test"
    /\ ds.got.idx \notin Range(ds.test)
    /\ ds.got.val = Value("train_tf")

\* ------------------------------------ detection: reading the annotations
\* parse_pascal_voc_anno, DetectionDataset._read_annos and __getitem__
\* (detection/dataset.py).  The image directory holds images 1 .. n in
\* sorted order; image j's annotation file exists or not and lists objects
\* (name, xmin, ymin, xmax, ymax).

MaxAnnos == 2

ImName(j) ==
    IF j = 1 THEN "im1.jpg" ELSE IF j = 2 THEN "im2.jpg"
    ELSE IF j = 3 THEN "im3.jpg" ELSE "im4.jpg"

\* os.path.splitext(s)[0] + ".xml".
AnnoName(j) ==
    IF j = 1 THEN "im1.xml" ELSE IF j = 2 THEN "im2.xml"
    ELSE IF j = 3 THEN "im3.xml" ELSE "im4.xml"

Obj(name, xmin, ymin, xmax, ymax) ==
    [name |-> name, xmin |-> xmin, ymin |-> ymin, xmax |-> xmax,
     ymax |-> ymax]

\* The object lists of an annotation file: none, one, several with equal or
\* different names, corners given in inverted order, and a box of no width.
ObjLists ==
    {<<>>,
     <<Obj("cat", 0, 10, 100, 1000)>>,
     <<Obj("dog", 100, 1000, 0, 10)>>,
     <<Obj("cat", 0, 10, 100, 1000), Obj("dog", 20, 30, 40, 60)>>,
     <<Obj("cat", 0, 10, 100, 1000), Obj("cat", 1, 2, 3, 4)>>,
     <<Obj("bird", 1, 2, 3, 4)>>,
     <<Obj("cat", 5, 5, 5, 20)>>}

AnnoFiles ==
    [exists : {TRUE}, objs : ObjLists] \cup {[exists |-> FALSE, objs |-> <<>>]}

\* The boxes of one annotation file, from object i on; labels is None.
RECURSIVE parse_objs(_, _, _, _)
parse_objs(objs, i, im_path, anno_bboxes) ==
    IF i > Len(objs) THEN [cls |-> "list", items |-> anno_bboxes]
    ELSE LET obj == objs[i]
             anno_bbox ==
                 AnnotationBbox_from_array(
                     QSeq(<<obj.xmin, obj.ymin, obj.xmax, obj.ymax>>),
                     [label_name |-> Str(obj.name), label_idx |-> NoneVal,
                      im_path |-> im_path])
         IN  IF ~IsBox(anno_bbox) THEN anno_bbox
             ELSE IF is_valid(anno_bbox) # Value(TRUE)
             THEN Raised("AssertionError")
             ELSE parse_objs(objs, i + 1, im_path,
                             Append(anno_bboxes, anno_bbox))

\* parse_pascal_voc_anno(anno_path) of image j's annotation: the boxes and
\* the image path read from the file's filename element.
parse_pascal_voc_anno(j, file) ==
    LET im_path == Path(<<"annotations", ImName(j)>>)
        parsed == parse_objs(file.objs, 1, im_path, <<>>)
    IN  IF parsed.cls # "list" THEN parsed
        ELSE [cls |-> "tuple", anno_bboxes |-> parsed.items,
              im_path |-> im_path]

ReadAnnosStepKeepsPath(st, j, file, im_dir) ==
    LET parsed == parse_pascal_voc_anno(j, file)
    IN  IF ~file.exists
        THEN [st EXCEPT !.raised = Raised("AssertionError")]
        ELSE IF parsed.cls # "tuple" THEN [st EXCEPT !.raised = parsed]
        ELSE IF Len(parsed.anno_bboxes) = 0
        THEN [st EXCEPT !.im_paths = Append(@, Path(<<"images", ImName(j)>>))]
        ELSE [st EXCEPT
                !.im_paths =
                    Append(@, IF im_dir THEN Path(<<"images", ImName(j)>>)
                              ELSE parsed.im_path),
                !.anno_paths = Append(@, Path(<<"annotations", AnnoName(j)>>)),
                !.anno_bboxes = Append(@, parsed.anno_bboxes)]

\* One pass of _read_annos' loop, for image j; im_dir tells whether im_dir
\* is given (then the image paths are those listed in it).
read_annos_step(st, j, file, im_dir) ==
    LET parsed == parse_pascal_voc_anno(j, file)
    IN  IF ~file.exists
        THEN [st EXCEPT !.raised = Raised("AssertionError")]
        ELSE IF parsed.cls # "tuple" THEN [st EXCEPT !.raised = parsed]
        ELSE IF Len(parsed.anno_bboxes) = 0 THEN st
        ELSE [st EXCEPT
                !.im_paths =
                    Append(@, IF im_dir THEN Path(<<"images", ImName(j)>>)
                              ELSE parsed.im_path),
                !.anno_paths = Append(@, Path(<<"annotations", AnnoName(j)>>)),
                !.anno_bboxes = Append(@, parsed.anno_bboxes)]

RECURSIVE read_annos_loop(_, _, _, _)
read_annos_loop(st, j, files, im_dir) ==
    IF j > Len(files) \/ st.raised # NoneVal THEN st
    ELSE read_annos_loop(read_annos_step(st, j, files[j], im_dir), j + 1,
                         files, im_dir)

\* The label names of the boxes read.
LabelNamesOf(anno_bboxes) ==
    UNION {{anno_bboxes[k][i].label_name.s : i \in DOMAIN anno_bboxes[k]} :
           k \in DOMAIN anno_bboxes}

\* list(set(labels)): the distinct names in any order.
Orders(S) ==
    {f \in [1 .. Cardinality(S) -> S] :
        \A i, j \in 1 .. Cardinality(S) : f[i] = f[j] => i = j}

\* labels.index(name), 0-based.
IndexOf(labels, name) == (CHOOSE i \in DOMAIN labels : labels[i] = name) - 1

\* The last loop of _read_annos: every box gets its label's index + 1.
set_label_idx(anno_bboxes, labels) ==
    [k \in DOMAIN anno_bboxes |->
        [i \in DOMAIN anno_bboxes[k] |->
            [anno_bboxes[k][i] EXCEPT
                !.label_idx =
                    IndexOf(labels, anno_bboxes[k][i].label_name.s) + 1]]]

\* __getitem__(idx), idx 0-based: the target's boxes, labels and area.
getitem(d, idx) ==
    LET anno_bboxes == d.anno_bboxes[idx + 1]
        boxes == [i \in DOMAIN anno_bboxes |->
                     <<anno_bboxes[i].left, anno_bboxes[i].top,
                       anno_bboxes[i].right, anno_bboxes[i].bottom>>]
        labels == [i \in DOMAIN anno_bboxes |-> anno_bboxes[i].label_idx]
        area == [i \in DOMAIN boxes |->
                    (boxes[i][4] - boxes[i][2]) * (boxes[i][3] - boxes[i][1])]
    IN  [idx |-> idx, boxes |-> boxes, labels |-> labels, area |-> area]

NoItem == [idx |-> -1, boxes |-> <<>>, labels |-> <<>>, area |-> <<>>]

\* ---- actions
FileLists == UNION {[1 .. n -> AnnoFiles] : n \in 0 .. MaxAnnos}

\* DetectionDataset._read_annos over the files on disk.
ReadAnnos ==
    /\ ds = NoneVal
    /\ \E files \in FileLists, im_dir \in BOOLEAN :
        LET st == read_annos_loop(
                      [im_paths |-> <<>>, anno_paths |-> <<>>,
                       anno_bboxes |-> <<>>, raised |-> NoneVal],
                      1, files, im_dir)
        IN  IF st.raised # NoneVal
            THEN ds' = [op |-> "_read_annos", files |-> files,
                        im_dir |-> im_dir, val |-> st.raised,
                        im_paths |-> <<>>, anno_paths |-> <<>>,
                        anno_bboxes |-> <<>>, labels |-> <<>>,
                        item |-> NoItem]
            ELSE \E labels \in Orders(LabelNamesOf(st.anno_bboxes)) :
                    ds' = [op |-> "_read_annos", files |-> files,
                           im_dir |-> im_dir, val |-> NoneVal,
                           im_paths |-> st.im_paths,
                           anno_paths |-> st.anno_paths,
                           anno_bboxes |->
                               set_label_idx(st.anno_bboxes, labels),
                           labels |-> labels, item |-> NoItem]
    /\ UNCHANGED <<box, ret, flt, trk>>

\* dataset[idx] for an idx below len(dataset).
GetItem ==
    /\ ds # NoneVal
    /\ ds.val = NoneVal
    /\ \E idx \in 0 .. Len(ds.anno_paths) - 1 :
        ds' = [ds EXCEPT !.op = "__getitem__", !.item = getitem(ds, idx)]
    /\ UNCHANGED <<box, ret, flt, trk>>

AnnoNext ==
    \/ ReadAnnos
    \/ GetItem

AnnoSpec == Init /\ [][AnnoNext]_vars

\* ---- properties of the annotations read
\* C22: the area __getitem__ reports for each box of the image equals the
\* box's surface_area(), (right - left + 1) * (bottom - top + 1).
C22_AreaInclusive ==
    (ds # NoneVal /\ ds.op = "__getitem__") =>
        \A i \in DOMAIN ds.item.area :
            /\ Value(ds.item.area[i]) =
                  surface_area(ds.anno_bboxes[ds.item.idx + 1][i])
            /\ ds.item.area[i] =
                  (ds.item.boxes[i][3] - ds.item.boxes[i][1] + 1)
                  * (ds.item.boxes[i][4] - ds.item.boxes[i][2] + 1)

\* The images whose annotation lists at least one object.
WithBoxes(files) == {j \in DOMAIN files : Len(files[j].objs) > 0}

\* C25: after _read_annos, im_paths, anno_paths and anno_bboxes are equally
\* long and entry k of each belongs to the k-th image that has boxes; no
\* entry has an empty box list; every box is_valid(); every box has
\* label_idx in 1..len(labels) with labels[label_idx - 1] its label_name,
\* and labels holds no name twice.
C25_AnnosAligned ==
    (ds # NoneVal /\ ds.op \in {"_read_annos", "__getitem__"}
       /\ ds.val = NoneVal) =>
        LET J == WithBoxes(ds.files)
        IN  /\ Len(ds.im_paths) = Cardinality(J)
            /\ Len(ds.anno_paths) = Cardinality(J)
            /\ Len(ds.anno_bboxes) = Cardinality(J)
            /\ \A a, b \in DOMAIN ds.labels :
                  ds.labels[a] = ds.labels[b] => a = b
            /\ \A k \in 1 .. Cardinality(J) :
                  LET j == Kth(J, k)
                      objs == ds.files[j].objs
                      bboxes == ds.anno_bboxes[k]
                  IN  /\ ds.anno_paths[k] = Path(<<"annotations", AnnoName(j)>>)
                      /\ ds.im_paths[k].p[2] = ImName(j)
                      /\ Len(bboxes) > 0
                      /\ Len(bboxes) = Len(objs)
                      /\ \A i \in DOMAIN bboxes :
                            /\ bboxes[i].label_name = Str(objs[i].name)
                            /\ {bboxes[i].left, bboxes[i].right} =
                                  {objs[i].xmin, objs[i].xmax}
                            /\ {bboxes[i].top, bboxes[i].bottom} =
                                  {objs[i].ymin, objs[i].ymax}
                            /\ is_valid(bboxes[i]) = Value(TRUE)
                            /\ bboxes[i].label_idx \in 1 .. Len(ds.labels)
                            /\ ds.labels[bboxes[i].label_idx] = objs[i].name

\* The first image has no object and was skipped; the one kept entry is the
\* second image, with a cat and a dog, the dog listed first in labels.
C25_Witness ==
    /\ ds # NoneVal
    /\ ds.op = "_read_annos"
    /\ ds.val = NoneVal
    /\ Len(ds.files) = 2
    /\ ds.files[1].objs = <<>>
    /\ Len(ds.files[2].objs) = 2
    /\ ds.im_dir
    /\ ds.im_paths = <<Path(<<"images", "im2.jpg">>)>>
    /\ ds.labels = <<"dog", "cat">>
    /\ ds.anno_bboxes[1][1].label_idx = 2
    /\ ds.anno_bboxes[1][2].label_idx = 1

\* ---- properties of the tracking learner
\* C26: fit on a learner with a dataset does not fail, also when the model
\* is None as after __init__; after it the learner has a model, and its
\* optimizer optimizes the parameters of that model.
C26_FitBuildsModelFirst ==
    (trk # NoneVal /\ trk.op = "fit" /\ trk.learner.dataset) =>
        /\ trk.val = NoneVal
        /\ trk.learner.model # NoneVal
        /\ trk.learner.optimizer # NoneVal
        /\ trk.learner.optimizer.params = trk.learner.model.id

\* C27: every call of predict that eval_mot makes is for a sequence of seqs
\* whose result file did not exist, and gets eval_mot's conf_thres as
\* conf_thres, its track_buffer as track_buffer, the sequence's frameRate
\* as frame_rate, and the defaults of det_thres, nms_thres and min_box_area.
C27_PredictArguments ==
    [][(trk # NoneVal /\ trk'.op = "eval_mot") =>
          \A i \in DOMAIN trk'.predicts :
              LET called == trk'.predicts[i]
                  seq == called.im_or_video_path[2]
              IN  /\ called.im_or_video_path = <<"data", seq, "img1">>
                  /\ seq \in Range(trk'.args.seqs)
                  /\ <<"out", "exp", ResultFilename(seq)>> \notin trk.fs.files
                  /\ called.conf_thres = trk'.args.conf_thres
                  /\ called.track_buffer = trk'.args.track_buffer
                  /\ called.frame_rate = FrameRate(seq)
                  /\ called.det_thres = DefaultDetThres
                  /\ called.min_box_area = DefaultMinBoxArea
                  /\ called.nms_thres = DefaultNmsThres]_vars

====
